---- MODULE Spec2Model ----
(***************************************************************************)
(* A model of bikeshare_2.py: the prompt loop (get_filters), the loader    *)
(* (load_data), the raw-row viewer (display_raw_data), the four statistics *)
(* functions and the session loop (main).                                  *)
(*                                                                         *)
(* A value read from the terminal or from a CSV file is an input: it is    *)
(* drawn from a finite set.  pandas and str are modelled by what the calls *)
(* the program makes on them return.  Banner, separator and timing prints  *)
(* carry no data and are left out of the output.                           *)
(***************************************************************************)
EXTENDS Integers, Sequences, FiniteSets, TLC

VARIABLES
    todo,       \* the calls the driver still has to make; Head(todo) is running
    prompt,     \* get_filters: the field being asked for
    city,       \* get_filters / main: local city
    month,      \* get_filters / main: local month
    day,        \* get_filters / main: local day
    df0,        \* load_data: df before the filters (read_csv + derived columns)
    df,         \* load_data's result / main: local df
    start_idx,  \* display_raw_data: local start_idx
    show_data,  \* display_raw_data: local show_data (the raw answer)
    restart,    \* main: local restart (the raw answer)
    out,        \* what the function that ran last has printed
    calls,      \* the functions that have run in this session iteration
    err         \* the exception that ended the program, "" when none

vars == <<todo, prompt, city, month, day, df0, df, start_idx, show_data,
          restart, out, calls, err>>

----------------------------------------------------------------------------
(* Bounds of the model *)

\* rows of a CSV file read by load_data
MaxFileRows == 2
\* rows of a dataframe handed directly to a statistics function
MaxRows == 3
\* rows of a dataframe handed directly to display_raw_data
MaxRawRows == 16

----------------------------------------------------------------------------
(* Helpers *)

Range(s) == {s[i] : i \in DOMAIN s}

SeqsUpTo(S, n) == UNION {[1..k -> S] : k \in 0..n}

InList(x, l) == \E i \in DOMAIN l : l[i] = x

Min(a, b) == IF a <= b THEN a ELSE b

\* a missing value (NaN) of an optional column is <<>>, a present one <<v>>
NaN == <<>>

----------------------------------------------------------------------------
(* str.lower, on the strings the model meets *)

Lower(s) ==
    CASE s = "January" -> "january"   [] s = "February" -> "february"
      [] s = "March" -> "march"       [] s = "April" -> "april"
      [] s = "May" -> "may"           [] s = "June" -> "june"
      [] s = "July" -> "july"         [] s = "August" -> "august"
      [] s = "September" -> "september" [] s = "October" -> "october"
      [] s = "November" -> "november" [] s = "December" -> "december"
      [] s = "Monday" -> "monday"     [] s = "Tuesday" -> "tuesday"
      [] s = "Wednesday" -> "wednesday" [] s = "Thursday" -> "thursday"
      [] s = "Friday" -> "friday"     [] s = "Saturday" -> "saturday"
      [] s = "Sunday" -> "sunday"
      [] s = "Chicago" -> "chicago"   [] s = "NEW YORK CITY" -> "new york city"
      [] s = "JUNE" -> "june"         [] s = "All" -> "all"
      [] s = "YES" -> "yes"           [] s = "Yes" -> "yes"
      [] s = "No" -> "no"
      [] OTHER -> s

\* what a user may type at a prompt
Inputs ==
    { "chicago", "new york city", "washington", "Chicago", "NEW YORK CITY",
      "paris", "",
      "all", "All", "january", "february", "march", "april", "may", "june",
      "july", "august", "september", "october", "november", "december",
      "JUNE", "July",
      "monday", "tuesday", "wednesday", "thursday", "friday", "saturday",
      "sunday", "Sunday",
      "yes", "YES", "Yes", "no", "No" }

----------------------------------------------------------------------------
(* Module constants and get_filters' lists *)

CITY_DATA ==
    ("chicago" :> "chicago.csv") @@ ("new york city" :> "new_york_city.csv")
        @@ ("washington" :> "washington.csv")

\* a variant of months that stops one name short
months_short == <<"all", "january", "february", "march", "april", "may">>

months == <<"all", "january", "february", "march", "april", "may", "june">>

days == <<"all", "monday", "tuesday", "wednesday", "thursday", "friday",
          "saturday", "sunday">>

chunk_size == 5

----------------------------------------------------------------------------
(* Timestamps and rows *)

\* Timestamp.month_name() and Timestamp.day_name()
MonthName(m) ==
    <<"January", "February", "March", "April", "May", "June", "July",
      "August", "September", "October", "November", "December">>[m]

DayName(d) ==
    <<"Monday", "Tuesday", "Wednesday", "Thursday", "Friday", "Saturday",
      "Sunday">>[d + 1]

\* a parsed Start Time: month 1..12, dayofweek 0..6 (Monday = 0), hour 0..23
Stamp(m, d, h) == [month |-> m, dayofweek |-> d, hour |-> h]

\* one row of a CSV file; idx is the row's index label
Row(t, ss, es, dur, ut, g, by) ==
    [idx |-> 0, StartTime |-> t, StartStation |-> ss, EndStation |-> es,
     TripDuration |-> dur, UserType |-> ut, Gender |-> g, BirthYear |-> by]

\* read_csv labels the rows 0, 1, 2, ...
WithIndex(rows) == [i \in DOMAIN rows |-> [rows[i] EXCEPT !.idx = i - 1]]

\* the optional columns a file may have
Schemas == SUBSET {"Gender", "Birth Year"}

Frame(cols, rows) == [columns |-> cols, rows |-> rows]

NoFrame == Frame({}, <<>>)

\* contents of the file read_csv opens
FileRows ==
    { Row(Stamp(m, d, 8), "A", "B", 60, "Subscriber", <<"Male">>, <<1980>>) :
        m \in {1, 6}, d \in {0, 6} }

Files ==
    { Frame(c, WithIndex(r)) : c \in Schemas, r \in SeqsUpTo(FileRows, MaxFileRows) }

----------------------------------------------------------------------------
(* load_data *)

\* lines 63-66: the derived columns
AddDerived(r) ==
    r @@ [month |-> Lower(MonthName(r.StartTime.month)),
          day_of_week |-> Lower(DayName(r.StartTime.dayofweek)),
          hour |-> r.StartTime.hour]

Derive(f) == Frame(f.columns, [i \in DOMAIN f.rows |-> AddDerived(f.rows[i])])

\* df[df[col] == v]
Where(f, col, v) == Frame(f.columns, SelectSeq(f.rows, LAMBDA r : r[col] = v))

\* a variant of LoadFilter whose day filter starts again from the unfiltered frame
LoadFilterDayOnly(f, m, d) ==
    LET byMonth == IF m # "all" THEN Where(f, "month", m) ELSE f
    IN  IF d # "all" THEN Where(f, "day_of_week", d) ELSE byMonth

\* lines 68-74
LoadFilter(f, m, d) ==
    LET byMonth == IF m # "all" THEN Where(f, "month", m) ELSE f
    IN  IF d # "all" THEN Where(byMonth, "day_of_week", d) ELSE byMonth

----------------------------------------------------------------------------
(* Calls and returns *)

Running(f) == todo # <<>> /\ Head(todo) = f

Line(tag, val) == [tag |-> tag, val |-> val]

Return(f, lines) ==
    /\ todo' = Tail(todo)
    /\ out' = lines
    /\ calls' = Append(calls, f)
    /\ err' = err

Raise(f, e, lines) ==
    /\ todo' = <<>>
    /\ out' = lines
    /\ calls' = Append(calls, f)
    /\ err' = e

\* the body of main's while loop
MainBody ==
    <<"get_filters", "load_data", "display_raw_data", "time_stats",
      "station_stats", "trip_duration_stats", "user_stats", "restart">>

----------------------------------------------------------------------------
(* get_filters: one action per input() call *)

\* a variant of ValidCity that accepts any non-empty answer
ValidCityNonEmpty(c) == c # ""

\* line 30: city in CITY_DATA
ValidCity(c) == c \in DOMAIN CITY_DATA

get_city ==
    /\ Running("get_filters") /\ prompt = "city"
    /\ \E raw \in Inputs :
        /\ city' = Lower(raw)
        /\ prompt' = IF ValidCity(city') THEN "month" ELSE "city"
    /\ UNCHANGED <<todo, month, day, df0, df, start_idx, show_data, restart,
                   out, calls, err>>

get_month ==
    /\ Running("get_filters") /\ prompt = "month"
    /\ \E raw \in Inputs :
        /\ month' = Lower(raw)
        /\ prompt' = IF InList(month', months) THEN "day" ELSE "month"
    /\ UNCHANGED <<todo, city, day, df0, df, start_idx, show_data, restart,
                   out, calls, err>>

get_day ==
    /\ Running("get_filters") /\ prompt = "day"
    /\ \E raw \in Inputs :
        /\ day' = Lower(raw)
        /\ IF InList(day', days)
             THEN /\ prompt' = "city"
                  /\ Return("get_filters", <<>>)
             ELSE UNCHANGED <<prompt, todo, out, calls, err>>
    /\ UNCHANGED <<city, month, df0, df, start_idx, show_data, restart>>

----------------------------------------------------------------------------
(* load_data *)

load_data ==
    /\ Running("load_data")
    /\ \E file \in Files :
        /\ df0' = Derive(file)
        /\ df' = LoadFilter(df0', month, day)
    /\ Return("load_data", <<>>)
    /\ UNCHANGED <<prompt, city, month, day, start_idx, show_data, restart>>

----------------------------------------------------------------------------
(* display_raw_data: one action per evaluation of the while condition *)

\* df.iloc[a:b]
Slice(rows, a, b) == SubSeq(rows, a + 1, Min(b, Len(rows)))

\* a variant of EndIdx without the min
EndIdxNoMin(start, n) == start + chunk_size

\* line 212
EndIdx(start, n) == Min(start + chunk_size, n)

\* what display_raw_data has printed so far in this call
RawOut == IF start_idx = 0 THEN <<>> ELSE out

\* lines 207-217: the condition holds, the user is asked
raw_answer ==
    /\ Running("display_raw_data")
    /\ start_idx < Len(df.rows)
    /\ \E raw \in Inputs :
        IF Lower(raw) # "yes"
          THEN /\ Return("display_raw_data", RawOut)
               /\ start_idx' = 0
               /\ show_data' = ""
          ELSE LET end_idx == EndIdx(start_idx, Len(df.rows))
                   window == Line("rows", [start |-> start_idx, end |-> end_idx,
                                           rows |-> Slice(df.rows, start_idx, end_idx)])
                   done == IF end_idx >= Len(df.rows)
                             THEN <<Line("No more data to display.", "")>>
                             ELSE <<>>
               IN  /\ show_data' = raw
                   /\ start_idx' = end_idx
                   /\ out' = RawOut \o <<window>> \o done
                   /\ UNCHANGED <<todo, calls, err>>
    /\ UNCHANGED <<prompt, city, month, day, df0, df, restart>>

\* line 207: the condition fails, the function returns
raw_exit ==
    /\ Running("display_raw_data")
    /\ ~(start_idx < Len(df.rows))
    /\ Return("display_raw_data", RawOut)
    /\ start_idx' = 0
    /\ show_data' = ""
    /\ UNCHANGED <<prompt, city, month, day, df0, df, restart>>

----------------------------------------------------------------------------
(* pandas: columns, mode, value_counts, sum *)

\* df[name]
Col(f, name) == [i \in DOMAIN f.rows |-> f.rows[i][name]]

\* Series.dropna() of an optional column
DropNa(col) ==
    LET s == SelectSeq(col, LAMBDA x : x # NaN)
    IN  [i \in DOMAIN s |-> s[i][1]]

Count(col, v) == Cardinality({i \in DOMAIN col : col[i] = v})

\* the order of str values (code points), on the strings of the columns
StrOrder ==
    <<"A", "B", "Customer", "Subscriber",
      "april", "august", "december", "february", "friday", "january", "july",
      "june", "march", "may", "monday", "november", "october", "saturday",
      "september", "sunday", "thursday", "tuesday", "wednesday">>

StrRank(s) == CHOOSE i \in DOMAIN StrOrder : StrOrder[i] = s

StrLE(a, b) == StrRank(a) <= StrRank(b)

\* the values Series.mode() holds: those of the highest count
Modes(col) ==
    {v \in Range(col) : \A w \in Range(col) : Count(col, w) <= Count(col, v)}

\* a variant of mode0_str that takes the mode met first in the column
mode0_first_seen(col) ==
    col[CHOOSE i \in DOMAIN col :
            /\ col[i] \in Modes(col)
            /\ \A j \in DOMAIN col : col[j] \in Modes(col) => i <= j]

\* Series.mode()[0] of a str column: mode() is sorted, [0] is its smallest
mode0_str(col) == CHOOSE v \in Modes(col) : \A w \in Modes(col) : StrLE(v, w)

\* Series.mode()[0] of a numeric column
mode0_num(col) == CHOOSE v \in Modes(col) : \A w \in Modes(col) : v <= w

\* Series.value_counts(): the count of each value (the order of the listing
\* is not modelled)
ValueCounts(col) == [v \in Range(col) |-> Count(col, v)]

RECURSIVE Sum(_)
Sum(col) == IF Len(col) = 0 THEN 0 ELSE Head(col) + Sum(Tail(col))

MinOf(col) == CHOOSE v \in Range(col) : \A w \in Range(col) : v <= w

MaxOf(col) == CHOOSE v \in Range(col) : \A w \in Range(col) : w <= v

\* groupby([a, b]).size().idxmax(): the groups are sorted by key and idxmax
\* takes the first of the largest
PairLE(p, q) ==
    \/ StrRank(p[1]) < StrRank(q[1])
    \/ p[1] = q[1] /\ StrRank(p[2]) <= StrRank(q[2])

Pairs(f) == [i \in DOMAIN f.rows |-> <<f.rows[i].StartStation, f.rows[i].EndStation>>]

Combo(f) == CHOOSE p \in Modes(Pairs(f)) : \A q \in Modes(Pairs(f)) : PairLE(p, q)

----------------------------------------------------------------------------
(* time_stats *)

\* a variant of time_stats that prints nothing for an empty dataframe
time_stats_silent ==
    /\ Running("time_stats")
    /\ IF Len(df.rows) = 0
         THEN Return("time_stats", <<>>)
         ELSE Return("time_stats",
                  << Line("Most common month", mode0_str(Col(df, "month"))),
                     Line("Most common day", mode0_str(Col(df, "day_of_week"))),
                     Line("Most common hour", mode0_num(Col(df, "hour"))) >>)
    /\ UNCHANGED <<prompt, city, month, day, df0, df, start_idx, show_data, restart>>

time_stats ==
    /\ Running("time_stats")
    /\ IF Len(df.rows) = 0
         \* line 89: mode() of an empty column is empty and [0] raises
         THEN Raise("time_stats", "KeyError", <<>>)
         ELSE Return("time_stats",
                  << Line("Most common month", mode0_str(Col(df, "month"))),
                     Line("Most common day", mode0_str(Col(df, "day_of_week"))),
                     Line("Most common hour", mode0_num(Col(df, "hour"))) >>)
    /\ UNCHANGED <<prompt, city, month, day, df0, df, start_idx, show_data, restart>>

----------------------------------------------------------------------------
(* station_stats *)

station_stats ==
    /\ Running("station_stats")
    /\ IF Len(df.rows) = 0
         \* line 110
         THEN Raise("station_stats", "KeyError", <<>>)
         ELSE Return("station_stats",
                  << Line("Most common start station", mode0_str(Col(df, "StartStation"))),
                     Line("Most common end station", mode0_str(Col(df, "EndStation"))),
                     Line("Most common start/end combination", Combo(df)) >>)
    /\ UNCHANGED <<prompt, city, month, day, df0, df, start_idx, show_data, restart>>

----------------------------------------------------------------------------
(* trip_duration_stats *)

\* a variant of Breakdown whose hours are not taken from the day's remainder
BreakdownNoWrap(total) ==
    << total \div 86400, total \div 3600, (total % 3600) \div 60, total % 60 >>

\* lines 135-138
Breakdown(total) ==
    << total \div 86400, (total % 86400) \div 3600, (total % 3600) \div 60,
       total % 60 >>

\* a variant of MeanBreakdown that breaks down the total again
MeanFromTotal(total, n) ==
    << total \div 86400, (total % 86400) \div 3600, (total % 3600) \div 60,
       total % 60 >>

\* lines 142-145 on mean = total / n, a float: with q = total / n,
\* floor(q / k) = total \div (k * n) and q % k = (total % (k * n)) / n
MeanBreakdown(total, n) ==
    << total \div (86400 * n), (total % (86400 * n)) \div (3600 * n),
       (total % (3600 * n)) \div (60 * n), (total % (60 * n)) \div n >>

trip_duration_stats ==
    /\ Running("trip_duration_stats")
    /\ LET total == Sum(Col(df, "TripDuration"))
           n == Len(df.rows)
           first == <<Line("Total", Breakdown(total))>>
       IN  IF n = 0
             \* line 142: the mean of no values is NaN and int(NaN) raises
             THEN Raise("trip_duration_stats", "ValueError", first)
             ELSE Return("trip_duration_stats",
                         first \o <<Line("Mean", MeanBreakdown(total, n))>>)
    /\ UNCHANGED <<prompt, city, month, day, df0, df, start_idx, show_data, restart>>

----------------------------------------------------------------------------
(* user_stats *)

\* a variant of UserLines that reads the Gender column without looking for it
UserLinesNoCheck(f) ==
    << Line("User types", ValueCounts(Col(f, "UserType"))),
       Line("Gender", ValueCounts(DropNa(Col(f, "Gender")))) >>

\* lines 165-174
UserLines(f) ==
    <<Line("User types", ValueCounts(Col(f, "UserType")))>>
    \o (IF "Gender" \in f.columns
          THEN <<Line("Gender", ValueCounts(DropNa(Col(f, "Gender"))))>>
          ELSE <<Line("Gender data not available", "")>>)

\* lines 177-185
BirthLines(years) ==
    << Line("Earliest", MinOf(years)), Line("Most recent", MaxOf(years)),
       Line("Most common", mode0_num(years)) >>

user_stats ==
    /\ Running("user_stats")
    /\ IF "Birth Year" \in df.columns
         THEN LET years == DropNa(Col(df, "BirthYear"))
              IN  IF Len(years) = 0
                    \* line 177: min() of no values is NaN and int(NaN) raises
                    THEN Raise("user_stats", "ValueError", UserLines(df))
                    ELSE Return("user_stats", UserLines(df) \o BirthLines(years))
         ELSE Return("user_stats",
                     UserLines(df) \o <<Line("Birth year data not available", "")>>)
    /\ UNCHANGED <<prompt, city, month, day, df0, df, start_idx, show_data, restart>>

----------------------------------------------------------------------------
(* main: the restart prompt *)

Restart ==
    /\ Running("restart")
    /\ \E raw \in Inputs :
        /\ restart' = raw
        /\ IF Lower(raw) # "yes"
             THEN todo' = <<>>
             ELSE todo' = MainBody
    \* the locals of the iteration that ended are dead: each is assigned
    \* again before it is read
    /\ city' = "" /\ month' = "" /\ day' = ""
    /\ df0' = NoFrame /\ df' = NoFrame
    /\ out' = <<>> /\ calls' = <<>>
    /\ UNCHANGED <<prompt, start_idx, show_data, err>>

----------------------------------------------------------------------------
Init ==
    /\ todo = MainBody
    /\ prompt = "city"
    /\ city = "" /\ month = "" /\ day = ""
    /\ df0 = NoFrame /\ df = NoFrame
    /\ start_idx = 0 /\ show_data = "" /\ restart = ""
    /\ out = <<>> /\ calls = <<>> /\ err = ""

Next ==
    \/ get_city
    \/ get_month
    \/ get_day
    \/ load_data
    \/ raw_answer
    \/ raw_exit
    \/ time_stats
    \/ station_stats
    \/ trip_duration_stats
    \/ user_stats
    \/ Restart

Spec == Init /\ [][Next]_vars

----------------------------------------------------------------------------
(* The functions called on their own: load_data and the statistics *)

StatFunctions == {"time_stats", "station_stats", "trip_duration_stats", "user_stats"}

Durations == {0, 59, 100, 200, 3599, 86400, 90061, 4000000}

\* rows that differ in the columns time_stats and station_stats read
TimeStationRows ==
    { Row(t, ss, es, 60, "Subscriber", <<"Male">>, <<1980>>) :
        t \in {Stamp(6, 0, 17), Stamp(1, 6, 8)}, ss \in {"A", "B"}, es \in {"A", "B"} }

\* rows that differ in the column trip_duration_stats reads
DurationRows ==
    { Row(Stamp(1, 0, 8), "A", "B", d, "Subscriber", <<"Male">>, <<1980>>) :
        d \in Durations }

\* rows that differ in the columns user_stats reads
UserRows ==
    { Row(Stamp(1, 0, 8), "A", "B", 60, ut, g, by) :
        ut \in {"Subscriber", "Customer"}, g \in {NaN, <<"Male">>},
        by \in {NaN, <<1980>>, <<1990>>} }

\* the dataframes a statistics function is handed
StatFrames ==
    { Derive(Frame(c, WithIndex(r))) :
        c \in Schemas,
        r \in SeqsUpTo(TimeStationRows, MaxRows) \cup SeqsUpTo(DurationRows, MaxRows)
                \cup SeqsUpTo(UserRows, MaxRows) }

\* f(df) on a dataframe, or f(load_data(city, month, day))
InitStats ==
    /\ prompt = "city"
    /\ df0 = NoFrame
    /\ start_idx = 0 /\ show_data = "" /\ restart = ""
    /\ out = <<>> /\ calls = <<>> /\ err = ""
    /\ \E f \in StatFunctions :
        \/ /\ todo = <<f>>
           /\ df \in StatFrames
           /\ city = "" /\ month = "" /\ day = ""
        \/ /\ todo = <<"load_data", f>>
           /\ df = NoFrame
           /\ city \in DOMAIN CITY_DATA
           /\ month \in Range(months)
           /\ day \in Range(days)

NextStats ==
    \/ load_data
    \/ time_stats
    \/ station_stats
    \/ trip_duration_stats
    \/ user_stats

SpecStats == InitStats /\ [][NextStats]_vars

----------------------------------------------------------------------------
(* display_raw_data called on its own *)

RawFrames ==
    { Derive(Frame({"Gender", "Birth Year"},
                   WithIndex([i \in 1..n |->
                       Row(Stamp(1, 0, 8), "A", "B", 60, "Subscriber", <<"Male">>, <<1980>>)]))) :
        n \in 0..MaxRawRows }

InitRaw ==
    /\ todo = <<"display_raw_data">>
    /\ prompt = "city"
    /\ city = "" /\ month = "" /\ day = ""
    /\ df0 = NoFrame
    /\ df \in RawFrames
    /\ start_idx = 0 /\ show_data = "" /\ restart = ""
    /\ out = <<>> /\ calls = <<>> /\ err = ""

NextRaw ==
    \/ raw_answer
    \/ raw_exit

SpecRaw == InitRaw /\ [][NextRaw]_vars

----------------------------------------------------------------------------
(* Properties *)

\* f is the function that ran last, and out is what it printed
Ran(f) == calls # <<>> /\ calls[Len(calls)] = f

\* the values printed under a tag by the function that ran last
Printed(tag) == {out[i].val : i \in {j \in DOMAIN out : out[j].tag = tag}}

\* the record passes the selectors month and day
Selected(r) ==
    /\ month = "all" \/ r.month = month
    /\ day = "all" \/ r.day_of_week = day

\* C1: the dataframe load_data returns holds exactly the records of the file
\* that match every selector that is not "all", in the file's order; with both
\* selectors "all" it is the whole file.
C1_LoadFilterExact ==
    InList("load_data", calls) =>
        /\ \A r \in Range(df0.rows) : r \in Range(df.rows) <=> Selected(r)
        /\ Range(df.rows) \subseteq Range(df0.rows)
        /\ \A i, j \in DOMAIN df.rows : i < j => df.rows[i].idx < df.rows[j].idx
        /\ \A i \in DOMAIN df0.rows : df0.rows[i].idx = i - 1
        /\ df.columns = df0.columns
        /\ month = "all" /\ day = "all" => df = df0

\* load_data has dropped a record and kept one, with both selectors set
C1_Witness ==
    /\ Ran("load_data")
    /\ month # "all" /\ day # "all"
    /\ Len(df.rows) >= 1
    /\ Len(df.rows) < Len(df0.rows)

\* C2: the days, hours, minutes and seconds printed for the total add up to
\* the sum of the trip durations.
C2_BreakdownReconstructs ==
    Ran("trip_duration_stats") =>
        /\ Printed("Total") # {}
        /\ \A b \in Printed("Total") :
              b[1] * 86400 + b[2] * 3600 + b[3] * 60 + b[4]
                  = Sum(Col(df, "TripDuration"))

\* a total with days, hours, minutes and seconds has been printed
C2_Witness ==
    /\ Ran("trip_duration_stats")
    /\ \E b \in Printed("Total") : b[1] > 0 /\ b[2] > 0 /\ b[3] > 0 /\ b[4] > 0

\* the scenario's dataframe has gone through trip_duration_stats
C3_Case ==
    /\ Ran("trip_duration_stats")
    /\ Col(df, "TripDuration") = <<100, 200, 4000000>>

\* C3 as stated: durations [100, 200, 4000000] print a total of 46d 7h 31m 40s
\* and a mean of 15d 10h 17m 13s.
C3_Original ==
    C3_Case =>
        /\ Printed("Total") = {<<46, 7, 31, 40>>}
        /\ Printed("Mean") = {<<15, 10, 17, 13>>}

\* C3, amended: durations [100, 200, 4000000] print a total of 46d 7h 11m 40s
\* and a mean of 15d 10h 23m 53s.
C3_Scenario ==
    C3_Case =>
        /\ Printed("Total") = {<<46, 7, 11, 40>>}
        /\ Printed("Mean") = {<<15, 10, 23, 53>>}

\* trip_duration_stats has returned on the scenario's dataframe
C3_Witness == C3_Case /\ err = ""

\* v has the highest count in col
MostFrequent(col, v) ==
    /\ v \in Range(col)
    /\ \A w \in Range(col) : Count(col, w) <= Count(col, v)

\* the value of highest count whose first occurrence in col is the earliest
FirstSeenMode(col) ==
    col[CHOOSE i \in DOMAIN col :
            /\ MostFrequent(col, col[i])
            /\ \A j \in DOMAIN col : MostFrequent(col, col[j]) => i <= j]

\* v is of highest count and the smallest such value of a str column
SmallestModeStr(col, v) ==
    /\ MostFrequent(col, v)
    /\ \A w \in Range(col) : MostFrequent(col, w) => StrRank(v) <= StrRank(w)

\* v is of highest count and the smallest such value of a numeric column
SmallestModeNum(col, v) ==
    /\ MostFrequent(col, v)
    /\ \A w \in Range(col) : MostFrequent(col, w) => v <= w

\* C4 as stated: the mode time_stats and station_stats print is a value of
\* highest count, and among several the one that occurs first in load order.
C4_Original ==
    /\ Ran("time_stats") /\ err = "" =>
          /\ Printed("Most common month") = {FirstSeenMode(Col(df, "month"))}
          /\ Printed("Most common day") = {FirstSeenMode(Col(df, "day_of_week"))}
          /\ Printed("Most common hour") = {FirstSeenMode(Col(df, "hour"))}
    /\ Ran("station_stats") /\ err = "" =>
          /\ Printed("Most common start station")
                = {FirstSeenMode(Col(df, "StartStation"))}
          /\ Printed("Most common end station")
                = {FirstSeenMode(Col(df, "EndStation"))}

\* C4, amended: the mode time_stats and station_stats print is a value of
\* highest count, and among several the smallest in the order of the values
\* (str order for month, day and stations, numeric for hour).
C4_ModeSmallestOfTies ==
    /\ Ran("time_stats") /\ err = "" =>
          /\ Cardinality(Printed("Most common month")) = 1
          /\ \A v \in Printed("Most common month") :
                SmallestModeStr(Col(df, "month"), v)
          /\ Cardinality(Printed("Most common day")) = 1
          /\ \A v \in Printed("Most common day") :
                SmallestModeStr(Col(df, "day_of_week"), v)
          /\ Cardinality(Printed("Most common hour")) = 1
          /\ \A v \in Printed("Most common hour") :
                SmallestModeNum(Col(df, "hour"), v)
    /\ Ran("station_stats") /\ err = "" =>
          /\ Cardinality(Printed("Most common start station")) = 1
          /\ \A v \in Printed("Most common start station") :
                SmallestModeStr(Col(df, "StartStation"), v)
          /\ Cardinality(Printed("Most common end station")) = 1
          /\ \A v \in Printed("Most common end station") :
                SmallestModeStr(Col(df, "EndStation"), v)

\* time_stats has printed a month that shares the highest count with a month
\* that occurs earlier
C4_Witness ==
    /\ Ran("time_stats") /\ err = ""
    /\ \E v \in Printed("Most common month") :
          /\ MostFrequent(Col(df, "month"), v)
          /\ v # FirstSeenMode(Col(df, "month"))

\* no record of the file passes the selectors
NoMatch == \A r \in Range(df0.rows) : ~Selected(r)

\* C5 as stated: selectors that match no record give a dataframe of length 0,
\* and time_stats, station_stats and user_stats each raise on an empty
\* dataframe, whatever its columns.
C5_Original ==
    /\ InList("load_data", calls) /\ NoMatch => Len(df.rows) = 0
    /\ Len(df.rows) = 0
          /\ (Ran("time_stats") \/ Ran("station_stats") \/ Ran("user_stats"))
          => err # ""

\* C5, amended: selectors that match no record give a dataframe of length 0;
\* on an empty dataframe time_stats and station_stats raise whatever the
\* columns, and user_stats raises exactly when the Birth Year column is
\* present: without it user_stats completes, printing empty user type counts
\* and "Birth year data not available".
C5_EmptyDataset ==
    /\ InList("load_data", calls) /\ NoMatch => Len(df.rows) = 0
    /\ Len(df.rows) = 0 /\ Ran("time_stats") => err = "KeyError" /\ out = <<>>
    /\ Len(df.rows) = 0 /\ Ran("station_stats") => err = "KeyError" /\ out = <<>>
    /\ Len(df.rows) = 0 /\ Ran("user_stats") =>
          /\ err # "" <=> "Birth Year" \in df.columns
          /\ \A c \in Printed("User types") : DOMAIN c = {}
          /\ "Birth Year" \notin df.columns =>
                Printed("Birth year data not available") # {}

\* user_stats has completed on a dataframe that load_data filtered down to
\* nothing
C5_Witness ==
    /\ Ran("user_stats") /\ err = ""
    /\ InList("load_data", calls)
    /\ Len(df0.rows) > 0 /\ Len(df.rows) = 0

\* the dataframe has a birth year that is not missing
HasBirthYear == \E i \in DOMAIN df.rows : df.rows[i].BirthYear # NaN

\* C6 as stated: on a dataframe without a Gender column user_stats prints
\* "Gender data not available" and completes; the Gender counts are printed
\* only when the column is there.
C6_Original ==
    Ran("user_stats") =>
        /\ "Gender" \notin df.columns =>
              /\ Printed("Gender data not available") # {}
              /\ Printed("Gender") = {}
              /\ err = ""
        /\ Printed("Gender") # {} => "Gender" \in df.columns

\* C6, amended: on a dataframe without a Gender column user_stats prints
\* "Gender data not available" and no Gender counts, and it completes unless
\* the Birth Year column is present and holds no value (then it raises after
\* that message); the Gender counts are printed exactly when the column is
\* there.
C6_NoGenderColumn ==
    Ran("user_stats") =>
        /\ "Gender" \notin df.columns =>
              /\ Printed("Gender data not available") # {}
              /\ Printed("Gender") = {}
              /\ err = "" <=> ("Birth Year" \notin df.columns \/ HasBirthYear)
        /\ "Gender" \in df.columns =>
              /\ Printed("Gender data not available") = {}
              /\ Cardinality(Printed("Gender")) = 1

\* user_stats has completed on a dataframe with records and a Birth Year
\* column but no Gender column
C6_Witness ==
    /\ Ran("user_stats") /\ err = ""
    /\ df.columns = {"Birth Year"}
    /\ Len(df.rows) > 0
    /\ Printed("Gender data not available") # {}

\* "all" and the twelve month names
MonthVocabulary ==
    {"all", "january", "february", "march", "april", "may", "june", "july",
     "august", "september", "october", "november", "december"}

\* "all" and the months january to june
HalfYearVocabulary ==
    {"all", "january", "february", "march", "april", "may", "june"}

\* "all" and the seven weekday names
DayVocabulary ==
    {"all", "monday", "tuesday", "wednesday", "thursday", "friday", "saturday",
     "sunday"}

CityVocabulary == {"chicago", "new york city", "washington"}

\* get_filters is asking for the month again after the answer now in month
MonthAskedAgain == Running("get_filters") /\ prompt = "month" /\ month # ""

\* get_filters has taken the answer now in month
MonthTaken ==
    \/ Running("get_filters") /\ prompt = "day"
    \/ InList("get_filters", calls)

\* C7 as stated: each of "all" and the twelve month names is accepted at the
\* month prompt without another prompt, and is the month load_data gets.
C7_Original ==
    /\ MonthAskedAgain => month \notin MonthVocabulary
    /\ Running("load_data") => month \in MonthVocabulary

\* C7, amended: the month selector vocabulary is "all" and the six month names
\* january to june: each of these seven is accepted at the month prompt
\* without another prompt and is the month load_data gets; every other answer,
\* july to december among them, is asked for again.
C7_MonthVocabulary ==
    /\ MonthAskedAgain => month \notin HalfYearVocabulary
    /\ MonthTaken => month \in HalfYearVocabulary
    /\ Running("load_data") => month \in HalfYearVocabulary

\* load_data is about to get the month june
C7_Witness == Running("load_data") /\ month = "june"

\* C8: get_filters never raises; it asks for a field again until the answer,
\* lower-cased, is valid, so the city, month and day it returns and load_data
\* gets are in their vocabularies.
C8_FiltersValid ==
    /\ Running("get_filters") => err = ""
    /\ Running("get_filters") /\ prompt = "city" /\ city # "" =>
          city \notin CityVocabulary
    /\ Running("get_filters") /\ prompt = "month" => city \in CityVocabulary
    /\ Running("get_filters") /\ prompt = "day" =>
          /\ city \in CityVocabulary
          /\ month \in MonthVocabulary
          /\ day # "" => day \notin DayVocabulary
    /\ InList("get_filters", calls) =>
          /\ city \in CityVocabulary
          /\ month \in MonthVocabulary
          /\ day \in DayVocabulary
          /\ city \in DOMAIN CITY_DATA

\* get_filters is asking for the day again after an answer that is no day
C8_Witness ==
    /\ Running("get_filters") /\ prompt = "day"
    /\ day = "july"
    /\ city = "new york city"

\* the order of the calls in one iteration of main
SessionOrder ==
    <<"get_filters", "load_data", "display_raw_data", "time_stats",
      "station_stats", "trip_duration_stats", "user_stats">>

\* C9: in every iteration of main the functions run in the fixed order, each
\* once; every iteration reaches the restart prompt, and the loop ends only
\* when the user declines.
C9_SessionOrder ==
    /\ Len(calls) <= Len(SessionOrder)
    /\ \A i \in DOMAIN calls : calls[i] = SessionOrder[i]
    /\ Running("restart") => calls = SessionOrder
    /\ err = ""
    /\ todo = <<>> => Lower(restart) # "yes"

\* the windows display_raw_data has printed
Windows ==
    LET w == SelectSeq(out, LAMBDA l : l.tag = "rows")
    IN  [i \in DOMAIN w |-> w[i].val]

\* the number of records display_raw_data has shown
Shown == IF Len(Windows) = 0 THEN 0 ELSE Windows[Len(Windows)].end

\* C10, the state: the windows shown are [0, 5), [5, 10), ... cut at the
\* length n of the dataframe, each holding the records of its indices and each
\* full except possibly the last; nothing beyond n is sliced; start_idx is the
\* number of records shown and at most n; there are at most ceil(n / 5)
\* windows; "No more data to display." is printed once, last, exactly when
\* the last record has been shown; the loop goes on only after a "yes".
C10_Windows ==
    LET n == Len(df.rows)
        w == Windows
    IN  /\ start_idx >= 0 /\ start_idx <= n
        /\ Running("display_raw_data") => start_idx = Shown
        /\ \A i \in DOMAIN w :
              /\ w[i].start = 5 * (i - 1)
              /\ w[i].end = (IF w[i].start + 5 <= n THEN w[i].start + 5 ELSE n)
              /\ w[i].start < w[i].end /\ w[i].end <= n
              /\ Len(w[i].rows) = w[i].end - w[i].start
              /\ \A j \in DOMAIN w[i].rows :
                    w[i].rows[j] = df.rows[w[i].start + j]
              /\ \A j \in DOMAIN w[i].rows : w[i].rows[j].idx = w[i].start + j - 1
              /\ i < Len(w) => Len(w[i].rows) = 5
        /\ 5 * Len(w) < n + 5
        /\ Cardinality({i \in DOMAIN out : out[i].tag = "No more data to display."})
              = (IF n > 0 /\ Shown = n THEN 1 ELSE 0)
        /\ n > 0 /\ Shown = n => out[Len(out)].tag = "No more data to display."
        /\ Len(out) = Len(w) + (IF n > 0 /\ Shown = n THEN 1 ELSE 0)
        /\ Running("display_raw_data") /\ start_idx > 0 => Lower(show_data) = "yes"
        /\ n = 0 => out = <<>> /\ show_data = ""

\* C10, the steps: a step is taken with records left to show or else ends
\* the call printing nothing more; a step that stays in the loop has shown a
\* window after a "yes", and start_idx has grown.
C10_Steps ==
    [][Running("display_raw_data") =>
          /\ start_idx < Len(df.rows) \/ (todo' = Tail(todo) /\ out' = RawOut)
          /\ Running("display_raw_data")' =>
                /\ start_idx' > start_idx
                /\ Lower(show_data') = "yes"
                /\ Len(out') > Len(RawOut)
          /\ ~Running("display_raw_data")' =>
                /\ out' = RawOut
                /\ calls' = Append(calls, "display_raw_data")]_vars

\* C10: display_raw_data shows consecutive windows of 5 records from 0, the
\* last one cut at the length n of the dataframe, without showing a record
\* twice, skipping one or slicing past n; start_idx never decreases nor
\* exceeds n; the user is asked only while records are left (never for
\* n = 0); "No more data to display." is printed exactly when the last record
\* has been shown; the loop ends after at most ceil(n / 5) "yes" answers or at
\* the first other answer.
C10_Pagination == []C10_Windows /\ C10_Steps

\* three windows have shown all records of a dataframe of more than ten
C10_Witness ==
    /\ Running("display_raw_data")
    /\ Len(df.rows) > 10
    /\ start_idx = Len(df.rows)
    /\ Len(Windows) = 3

====
